---- MODULE Spec2Model ----
(***************************************************************************)
(* Model of src/main.py: the XBee telemetry ingestion (BackendWorker), the *)
(* per-channel data lists and moving-window plot (LiveGraphWindow) and the *)
(* thread wiring of main().                                                *)
(*                                                                         *)
(* Text is modelled as a sequence of one-character strings, so that        *)
(* bytes.decode, str.strip, str.split and float are computed and not       *)
(* assumed.  The alphabet is lower-case ASCII without exponent letters or  *)
(* underscores; the byte 0xFF stands for any byte sequence that is not     *)
(* valid UTF-8.                                                            *)
(***************************************************************************)
EXTENDS Integers, Sequences, FiniteSets, TLC

\* ------------------------------------------------------------------ bounds
\* Number of frames the radio delivers in one run.
MaxFrames == 3
\* Largest window_size tried (the source fixes 100; the window logic is the
\* same for every positive size, and small sizes make eviction happen).
MaxWindowSize == 2

\* ------------------------------------------------------- sequence helpers
Last(s) == s[Len(s)]

Min(a, b) == IF a <= b THEN a ELSE b

\* ------------------------------------------------------------ python text
Whitespace == {" ", "\n", "\r", "\t"}

Digits == <<"0", "1", "2", "3", "4", "5", "6", "7", "8", "9">>

IsDigit(c) == \E i \in 1..10 : Digits[i] = c

DigitVal(c) == (CHOOSE i \in 1..10 : Digits[i] = c) - 1

\* bytes.decode(): UTF-8; on ASCII bytes the text has the same characters,
\* any invalid byte raises UnicodeDecodeError.
BytesDecode(b) ==
    IF \E i \in 1..Len(b) : b[i] = "0xFF"
    THEN [exc |-> "UnicodeDecodeError", text |-> <<>>]
    ELSE [exc |-> "none", text |-> b]

RECURSIVE LStrip(_)
LStrip(s) ==
    IF s # <<>> /\ Head(s) \in Whitespace THEN LStrip(Tail(s)) ELSE s

RECURSIVE RStrip(_)
RStrip(s) ==
    IF s # <<>> /\ Last(s) \in Whitespace
    THEN RStrip(SubSeq(s, 1, Len(s) - 1))
    ELSE s

\* str.strip()
Strip(s) == RStrip(LStrip(s))

\* str.split(sep): always at least one part, empty parts kept.
RECURSIVE SplitFrom(_, _, _)
SplitFrom(s, sep, cur) ==
    IF s = <<>> THEN <<cur>>
    ELSE IF Head(s) = sep THEN <<cur>> \o SplitFrom(Tail(s), sep, <<>>)
    ELSE SplitFrom(Tail(s), sep, Append(cur, Head(s)))

Split(s, sep) == SplitFrom(s, sep, <<>>)

\* ----------------------------------------------------------- python float
\* A float value: finite n / 10^e (normalised), nan, or inf with sign n.
Fin(n, e) == [k |-> "fin", n |-> n, e |-> e]
NaN == [k |-> "nan", n |-> 0, e |-> 0]
Inf(sign) == [k |-> "inf", n |-> sign, e |-> 0]

RECURSIVE Normalise(_, _)
Normalise(n, e) ==
    IF e > 0 /\ n % 10 = 0 THEN Normalise(n \div 10, e - 1) ELSE Fin(n, e)

RECURSIVE DigitsToNat(_, _)
DigitsToNat(s, acc) ==
    IF s = <<>> THEN acc ELSE DigitsToNat(Tail(s), acc * 10 + DigitVal(Head(s)))

DropDots(s) == SelectSeq(s, LAMBDA c : c # ".")

DotCount(s) == Len(s) - Len(DropDots(s))

\* Position of the decimal point, Len(s) + 1 when there is none.
DotPos(s) ==
    IF DotCount(s) = 0 THEN Len(s) + 1
    ELSE CHOOSE i \in 1..Len(s) : s[i] = "."

\* digits[.digits] | .digits | digits.
IsDecimalBody(s) ==
    /\ DotCount(s) <= 1
    /\ Len(DropDots(s)) >= 1
    /\ \A i \in 1..Len(s) : s[i] = "." \/ IsDigit(s[i])

\* float(str): surrounding whitespace ignored, optional sign, then a decimal
\* literal or one of nan / inf / infinity; anything else is a ValueError.
Float(s) ==
    LET t == Strip(s)
        signed == t # <<>> /\ Head(t) \in {"+", "-"}
        sign == IF signed /\ Head(t) = "-" THEN -1 ELSE 1
        body == IF signed THEN Tail(t) ELSE t
    IN  IF body = <<"n", "a", "n">>
        THEN [exc |-> "none", val |-> NaN]
        ELSE IF body \in {<<"i", "n", "f">>,
                          <<"i", "n", "f", "i", "n", "i", "t", "y">>}
        THEN [exc |-> "none", val |-> Inf(sign)]
        ELSE IF IsDecimalBody(body)
        THEN [exc |-> "none",
              val |-> Normalise(sign * DigitsToNat(DropDots(body), 0),
                                Len(body) - Min(DotPos(body), Len(body)))]
        ELSE [exc |-> "ValueError", val |-> NaN]

\* ------------------------------------------------- BackendWorker handler
\* The four channel names, in the insertion order of LiveGraphWindow.data.
Keys == <<"command", "setpoint", "measurement1", "measurement2">>

KeySet == {Keys[i] : i \in 1..Len(Keys)}

\* Mutant of BuildSensorData: the fields are read in wire order, so that
\* "command" takes the first field and "setpoint" the second.
BuildSensorData_Swapped(parts) ==
    LET vals == [i \in 1..4 |-> Float(parts[i])]
    IN  IF \E i \in 1..4 : vals[i].exc # "none"
        THEN [exc |-> "ValueError", rec |-> <<>>]
        ELSE [exc |-> "none",
              rec |-> [command |-> vals[1].val,
                       setpoint |-> vals[2].val,
                       measurement1 |-> vals[3].val,
                       measurement2 |-> vals[4].val]]

\* Mutant of BuildSensorData: a field float() cannot parse counts as 0.0
\* and the record is built from the fields that did parse.
BuildSensorData_DefaultZero(parts) ==
    LET val(i) == IF Float(parts[i]).exc = "none"
                  THEN Float(parts[i]).val
                  ELSE Fin(0, 0)
    IN  [exc |-> "none",
         rec |-> [command |-> val(2),
                  setpoint |-> val(1),
                  measurement1 |-> val(3),
                  measurement2 |-> val(4)]]

\* The dict display of handle_xbee_message: the values are evaluated in the
\* order written (parts[1], parts[0], parts[2], parts[3], 0-based) and the
\* first float() that raises ends the evaluation.
BuildSensorData(parts) ==
    LET command == Float(parts[2])
        setpoint == Float(parts[1])
        measurement1 == Float(parts[3])
        measurement2 == Float(parts[4])
        order == <<command, setpoint, measurement1, measurement2>>
        bad == {i \in 1..4 : order[i].exc # "none"}
    IN  IF bad # {}
        THEN [exc |-> order[CHOOSE i \in bad : \A j \in bad : i <= j].exc,
              rec |-> <<>>]
        ELSE [exc |-> "none",
              rec |-> [command |-> command.val,
                       setpoint |-> setpoint.val,
                       measurement1 |-> measurement1.val,
                       measurement2 |-> measurement2.val]]

\* Mutant of FormatOk: only too few fields are refused.
FormatOk_AtLeast4(parts) == Len(parts) >= 4

\* The field-count test on the split text.
FormatOk(parts) == Len(parts) = 4

\* The body of the try block: "format" is the early return after printing
\* "Unexpected message format", "emit" is sensor_data_signal.emit.
TryBody(raw) ==
    LET dec == BytesDecode(raw)
        data_str == Strip(dec.text)
        parts == Split(data_str, ",")
        sd == BuildSensorData(parts)
    IN  IF dec.exc # "none"
        THEN [exc |-> dec.exc, outcome |-> "none", rec |-> <<>>]
        ELSE IF ~FormatOk(parts)
        THEN [exc |-> "none", outcome |-> "format", rec |-> <<>>]
        ELSE IF sd.exc # "none"
        THEN [exc |-> sd.exc, outcome |-> "none", rec |-> <<>>]
        ELSE [exc |-> "none", outcome |-> "emit", rec |-> sd.rec]

\* Mutant of Caught: the clause reads "except ValueError".
Caught_ValueErrorOnly(exc) == exc \in {"ValueError"}

\* except Exception: both exceptions the body can raise derive from it.
Caught(exc) == exc \in {"ValueError", "UnicodeDecodeError"}

\* What one call of handle_xbee_message does: "emit", "format" (diagnostic,
\* return), "except" (diagnostic from the except clause) or "raise" (the
\* exception leaves the handler).
Handle(raw) ==
    LET r == TryBody(raw)
    IN  IF r.exc = "none" THEN [outcome |-> r.outcome, rec |-> r.rec]
        ELSE IF Caught(r.exc) THEN [outcome |-> "except", rec |-> <<>>]
        ELSE [outcome |-> "raise", rec |-> <<>>]

\* ------------------------------------------------------- LiveGraphWindow
\* dict.get(key, default)
Get(d, key, default) == IF key \in DOMAIN d THEN d[key] ELSE default

\* Mutant of AppendValue: the oldest value is dropped before the append.
AppendValue_DropOldest(full_data, sensor_data, key) ==
    Append(IF full_data = <<>> THEN full_data ELSE Tail(full_data),
           Get(sensor_data, key, Fin(0, 0)))

\* Mutant of AppendValue: the value is appended twice.
AppendValue_Twice(full_data, sensor_data, key) ==
    Append(Append(full_data, Get(sensor_data, key, Fin(0, 0))),
           Get(sensor_data, key, Fin(0, 0)))

\* Mutant of AppendValue: a key the record lacks is skipped instead of
\* contributing 0.
AppendValue_SkipMissing(full_data, sensor_data, key) ==
    IF key \in DOMAIN sensor_data
    THEN Append(full_data, sensor_data[key])
    ELSE full_data

\* The value update_data appends for one key.
AppendValue(full_data, sensor_data, key) ==
    Append(full_data, Get(sensor_data, key, Fin(0, 0)))

\* Mutant of WindowSlice: a list shorter than the window is padded with
\* zeros up to window_size, as a pre-filled buffer would show it.
WindowSlice_Padded(full_data, w) ==
    IF Len(full_data) >= w
    THEN SubSeq(full_data, Len(full_data) - w + 1, Len(full_data))
    ELSE [i \in 1..w |-> IF i <= Len(full_data) THEN full_data[i] ELSE Fin(0, 0)]

\* Mutant of WindowSlice: the first window_size values, full_data[:w].
WindowSlice_First(full_data, w) ==
    IF Len(full_data) >= w THEN SubSeq(full_data, 1, w) ELSE full_data

\* full_data[-window_size:] if len(full_data) >= window_size else full_data
WindowSlice(full_data, w) ==
    IF Len(full_data) >= w
    THEN SubSeq(full_data, Len(full_data) - w + 1, Len(full_data))
    ELSE full_data

\* Mutant of XRange: indices counted from 1.
XRange_OneBased(full_data, y) ==
    LET x_start == Len(full_data) - Len(y)
    IN  [i \in 1..Len(y) |-> x_start + i]

\* list(range(x_start, x_start + len(y)))
XRange(full_data, y) ==
    LET x_start == Len(full_data) - Len(y)
    IN  [i \in 1..Len(y) |-> x_start + i - 1]

\* What update_plot hands to curve.setData for one channel.
PlotChannel(full_data, w) ==
    LET y == WindowSlice(full_data, w)
    IN  [x |-> XRange(full_data, y), y |-> y]

\* ----------------------------------------------------------------- inputs
F_1234 == <<"1", ",", "2", ",", "3", ",", "4">>
F_5678 == <<"5", ",", "6", ",", "7", ",", "8">>
F_padded == <<" ", "-", "1", ".", "5", ",", "2", "0", ",", ".", "5", ",", "4", ".", "\n">>
F_bad == <<"b", "a", "d">>
F_five == <<"1", ",", "2", ",", "3", ",", "4", ",", "5">>
F_x == <<"1", ",", "2", ",", "x", ",", "4">>
F_naninf == <<"n", "a", "n", ",", "-", "i", "n", "f", ",", "3", ",", "4">>
F_notutf8 == <<"1", ",", "0xFF", ",", "3", ",", "4">>

\* The raw payloads the radio may deliver.
Frames ==
    {F_1234, F_5678, F_padded, F_bad, F_five, F_x, F_naninf, F_notutf8}

\* ------------------------------------------------- the documented format
\* The record format the sender is documented to use, written without
\* reference to the handler: "setpoint,command,measurement1,measurement2",
\* each field a finite decimal number ([sign] digits [. digits], at least
\* one digit).  No guard or effect on the program's state reads it: it
\* feeds the history variable valid_in and the properties.
IsFiniteDecimal(f) ==
    /\ \E i \in 1..Len(f) : IsDigit(f[i])
    /\ \A i \in 1..Len(f) :
          \/ IsDigit(f[i])
          \/ f[i] \in {"+", "-"} /\ i = 1
          \/ f[i] = "." /\ \A j \in 1..Len(f) : f[j] = "." => j = i

IsText(raw) == \A i \in 1..Len(raw) : raw[i] # "0xFF"

FieldsOf(raw) == Split(Strip(raw), ",")

ValidRecord(raw) ==
    /\ IsText(raw)
    /\ Len(FieldsOf(raw)) = 4
    /\ \A i \in 1..4 : IsFiniteDecimal(FieldsOf(raw)[i])

\* The payloads of Frames that are valid records.
ValidFrames == {raw \in Frames : ValidRecord(raw)}

\* ------------------------------------------------------------------ state
VARIABLES
    window_size,   \* LiveGraphWindow.window_size
    data,          \* LiveGraphWindow.data: key -> list of every value appended
    curves,        \* what each curve was last given by setData: [x, y]
    queue,         \* sensor_data_signal emissions posted to the GUI thread
    gui_pc,        \* GUI thread: "idle" or inside the slot "update_data"
    gui_ev,        \* the sensor_data dict of the slot call in progress / last run
    gui_keys,      \* keys the loop of update_data still has to visit
    xbee,          \* BackendWorker.xbee: "None", "created" (not open), "open", "closed"
    registered,    \* handle_xbee_message is registered as data-received callback
    worker_pc,     \* worker thread: "init", "started", "failed" (open raised)
    main_pc,       \* main(): "exec", "exited", "stopped", "done"; "crashed" when stop() raised
    escaped,       \* an exception left handle_xbee_message
    n_emit,        \* number of sensor_data_signal.emit calls
    n_format,      \* number of "Unexpected message format" diagnostics
    n_except,      \* number of "Error processing XBee message" diagnostics
    n_update,      \* number of update_data calls
    n_frames,      \* history: number of payloads delivered to the handler
    last_frame,    \* history: the payload delivered last
    valid_in,      \* history: the delivered payloads that are valid records
    emitted_in,    \* history: the payloads whose record the handler emitted
    last_outcome,  \* history: what the handler did with the last payload
    plot_fresh     \* history: update_plot has run since data last changed

vars ==
    <<window_size, data, curves, queue, gui_pc, gui_ev, gui_keys, xbee,
      registered, worker_pc, main_pc, escaped, n_emit, n_format, n_except,
      n_update, n_frames, last_frame, valid_in, emitted_in, last_outcome,
      plot_fresh>>

guiVars == <<data, curves, gui_pc, gui_ev, gui_keys, n_update>>

workerVars == <<xbee, registered, worker_pc>>

handlerVars ==
    <<escaped, n_emit, n_format, n_except, n_frames, last_frame, valid_in,
      emitted_in, last_outcome>>

\* LiveGraphWindow.__init__ and BackendWorker.__init__, then main() up to
\* app.exec(): empty lists, empty curves, no device, thread started.
Init ==
    /\ window_size \in 1..MaxWindowSize
    /\ data = [key \in KeySet |-> <<>>]
    /\ curves = [key \in KeySet |-> [x |-> <<>>, y |-> <<>>]]
    /\ queue = <<>>
    /\ gui_pc = "idle"
    /\ gui_ev = <<>>
    /\ gui_keys = <<>>
    /\ xbee = "None"
    /\ registered = FALSE
    /\ worker_pc = "init"
    /\ main_pc = "exec"
    /\ escaped = FALSE
    /\ n_emit = 0
    /\ n_format = 0
    /\ n_except = 0
    /\ n_update = 0
    /\ n_frames = 0
    /\ last_frame = <<>>
    /\ valid_in = <<>>
    /\ emitted_in = <<>>
    /\ last_outcome = "none"
    /\ plot_fresh = FALSE

\* ------------------------------------------------------------ BackendWorker
\* start(), run by thread.started in the worker thread: the device is
\* created and opened, then the callback is registered.
StartOpens ==
    /\ worker_pc = "init"
    /\ main_pc \notin {"done", "crashed"}
    /\ xbee' = "open"
    /\ registered' = TRUE
    /\ worker_pc' = "started"
    /\ UNCHANGED plot_fresh
    /\ UNCHANGED <<window_size, queue, main_pc>>
    /\ UNCHANGED guiVars
    /\ UNCHANGED handlerVars

\* Mutant of StartFails: the callback is registered before open() is
\* called, so it stays registered when open() raises.
StartFails_RegistersFirst ==
    /\ worker_pc = "init"
    /\ main_pc \notin {"done", "crashed"}
    /\ xbee' = "created"
    /\ registered' = TRUE
    /\ worker_pc' = "failed"
    /\ UNCHANGED plot_fresh
    /\ UNCHANGED <<window_size, queue, main_pc>>
    /\ UNCHANGED guiVars
    /\ UNCHANGED handlerVars

\* start() when XBeeDevice.open() raises: the device object exists but is
\* not open, and the line that registers the callback is never reached.
StartFails ==
    /\ worker_pc = "init"
    /\ main_pc \notin {"done", "crashed"}
    /\ xbee' = "created"
    /\ registered' = FALSE
    /\ worker_pc' = "failed"
    /\ UNCHANGED plot_fresh
    /\ UNCHANGED <<window_size, queue, main_pc>>
    /\ UNCHANGED guiVars
    /\ UNCHANGED handlerVars

\* The device delivers payloads to the callback while it is open, the
\* callback is registered and no exception has ended the reader.
Delivering == xbee = "open" /\ registered /\ ~escaped /\ main_pc \notin {"done", "crashed"}

\* handle_xbee_message(xbee_message), one whole call.
HandleXbeeMessage(raw) ==
    /\ Delivering
    /\ n_frames < MaxFrames
    /\ \E h \in {Handle(raw)} :
           /\ n_frames' = n_frames + 1
           /\ last_frame' = raw
           /\ valid_in' = IF raw \in ValidFrames THEN Append(valid_in, raw) ELSE valid_in
           /\ emitted_in' =
                IF h.outcome = "emit" THEN Append(emitted_in, raw) ELSE emitted_in
           /\ last_outcome' = h.outcome
           /\ queue' = IF h.outcome = "emit" THEN Append(queue, h.rec) ELSE queue
           /\ n_emit' = IF h.outcome = "emit" THEN n_emit + 1 ELSE n_emit
           /\ n_format' = IF h.outcome = "format" THEN n_format + 1 ELSE n_format
           /\ n_except' = IF h.outcome = "except" THEN n_except + 1 ELSE n_except
           /\ escaped' = (h.outcome = "raise")
    /\ UNCHANGED plot_fresh
    /\ UNCHANGED <<window_size, main_pc>>
    /\ UNCHANGED guiVars
    /\ UNCHANGED workerVars

\* self.xbee.is_open(): an attribute access on None raises AttributeError.
IsOpen(x) == [exc |-> x = "None", val |-> x = "open"]

\* Mutant of StopResult: is_open() is called without the None test.
StopResult_NoNoneCheck(x) ==
    IF IsOpen(x).exc
    THEN [exc |-> TRUE, xbee |-> x, closed |-> FALSE]
    ELSE IF IsOpen(x).val
         THEN [exc |-> FALSE, xbee |-> "closed", closed |-> TRUE]
         ELSE [exc |-> FALSE, xbee |-> x, closed |-> FALSE]

\* The body of stop() on a worker whose xbee attribute is x: whether an
\* exception leaves it, the attribute's device state afterwards, and whether
\* close() was called. "and" does not evaluate is_open() when xbee is None.
StopResult(x) ==
    IF x # "None"
    THEN IF IsOpen(x).exc
         THEN [exc |-> TRUE, xbee |-> x, closed |-> FALSE]
         ELSE IF IsOpen(x).val
              THEN [exc |-> FALSE, xbee |-> "closed", closed |-> TRUE]
              ELSE [exc |-> FALSE, xbee |-> x, closed |-> FALSE]
    ELSE [exc |-> FALSE, xbee |-> x, closed |-> FALSE]

\* stop(), called by main() after app.exec() has returned; an exception of
\* stop() ends main() before thread.quit().
WorkerStop ==
    /\ main_pc = "exited"
    /\ xbee' = StopResult(xbee).xbee
    /\ main_pc' = IF StopResult(xbee).exc THEN "crashed" ELSE "stopped"
    /\ UNCHANGED plot_fresh
    /\ UNCHANGED <<window_size, queue, registered, worker_pc>>
    /\ UNCHANGED guiVars
    /\ UNCHANGED handlerVars

\* ---------------------------------------------------------- LiveGraphWindow
\* The GUI event loop takes the next queued emission and enters the slot
\* update_data with it.
GuiDispatchUpdateData ==
    /\ main_pc = "exec"
    /\ gui_pc = "idle"
    /\ queue # <<>>
    /\ gui_ev' = Head(queue)
    /\ queue' = Tail(queue)
    /\ gui_keys' = Keys
    /\ gui_pc' = "update_data"
    /\ n_update' = n_update + 1
    /\ UNCHANGED plot_fresh
    /\ UNCHANGED <<window_size, data, curves, main_pc>>
    /\ UNCHANGED workerVars
    /\ UNCHANGED handlerVars

\* One iteration of the loop of update_data; the slot returns after the
\* last key.
UpdateDataStep ==
    /\ gui_pc = "update_data"
    /\ LET key == Head(gui_keys)
       IN  data' = [data EXCEPT ![key] = AppendValue(data[key], gui_ev, key)]
    /\ gui_keys' = Tail(gui_keys)
    /\ gui_pc' = IF Tail(gui_keys) = <<>> THEN "idle" ELSE "update_data"
    /\ plot_fresh' = FALSE
    /\ UNCHANGED <<window_size, curves, queue, gui_ev, n_update, main_pc>>
    /\ UNCHANGED workerVars
    /\ UNCHANGED handlerVars

\* Mutant of TickEnabled: update_plot may run while update_data is in its
\* loop, as it could from a thread of its own.
TickEnabled_Always == TRUE

\* The timer's timeout is delivered by the event loop of the GUI thread,
\* the thread that also runs update_data: it fires only between slot calls.
TickEnabled == gui_pc = "idle"

\* Mutant of UpdatePlot: the lists are cut down to the window while
\* plotting (del full_data[:-window_size]).
UpdatePlot_Truncating ==
    /\ main_pc = "exec"
    /\ TickEnabled
    /\ curves' = [key \in KeySet |-> PlotChannel(data[key], window_size)]
    /\ data' = [key \in KeySet |-> WindowSlice(data[key], window_size)]
    /\ plot_fresh' = TRUE
    /\ UNCHANGED <<window_size, queue, gui_pc, gui_ev, gui_keys, n_update, main_pc>>
    /\ UNCHANGED workerVars
    /\ UNCHANGED handlerVars

\* update_plot(), one whole call: every curve is given its window.
UpdatePlot ==
    /\ main_pc = "exec"
    /\ TickEnabled
    /\ curves' = [key \in KeySet |-> PlotChannel(data[key], window_size)]
    /\ plot_fresh' = TRUE
    /\ UNCHANGED <<window_size, data, queue, gui_pc, gui_ev, gui_keys, n_update,
                   main_pc>>
    /\ UNCHANGED workerVars
    /\ UNCHANGED handlerVars

\* --------------------------------------------------------------------- main
\* app.exec() returns (the window was closed); the event loop runs no
\* further slot or timer call.
AppExit ==
    /\ main_pc = "exec"
    /\ gui_pc = "idle"
    /\ main_pc' = "exited"
    /\ UNCHANGED plot_fresh
    /\ UNCHANGED <<window_size, queue>>
    /\ UNCHANGED guiVars
    /\ UNCHANGED workerVars
    /\ UNCHANGED handlerVars

\* thread.quit(); thread.wait(); sys.exit(exit_code): wait returns once the
\* worker thread has run start() and left its event loop.
ThreadQuitWait ==
    /\ main_pc = "stopped"
    /\ worker_pc # "init"
    /\ main_pc' = "done"
    /\ UNCHANGED plot_fresh
    /\ UNCHANGED <<window_size, queue>>
    /\ UNCHANGED guiVars
    /\ UNCHANGED workerVars
    /\ UNCHANGED handlerVars

Next ==
    \/ StartOpens
    \/ StartFails
    \/ \E raw \in Frames : HandleXbeeMessage(raw)
    \/ WorkerStop
    \/ GuiDispatchUpdateData
    \/ UpdateDataStep
    \/ UpdatePlot
    \/ AppExit
    \/ ThreadQuitWait

Spec == Init /\ [][Next]_vars

\* -------------------------------------------- update_data on any dictionary
\* sensor_data_signal is a Signal(dict): update_data is a public slot that
\* takes any dictionary, not only the four-key one the handler builds.
R_full ==
    [key \in KeySet |->
        Fin(CHOOSE i \in 1..Len(Keys) : Keys[i] = key, 0)]

R_no_command == [key \in KeySet \ {"command"} |-> Fin(5, 0)]

R_only_setpoint == [key \in {"setpoint"} |-> Fin(6, 0)]

R_empty == [key \in {} |-> Fin(0, 0)]

R_extra ==
    [key \in {"setpoint", "measurement2", "temperature"} |->
        IF key = "temperature" THEN Fin(9, 0) ELSE Fin(7, 0)]

TestRecords == {R_full, R_no_command, R_only_setpoint, R_empty, R_extra}

\* sensor_data_signal.emit(d) with a dictionary d: the call of update_data
\* is queued for the GUI thread.
EmitRecord(d) ==
    /\ main_pc = "exec"
    /\ n_emit < MaxFrames
    /\ queue' = Append(queue, d)
    /\ n_emit' = n_emit + 1
    /\ UNCHANGED plot_fresh
    /\ UNCHANGED <<window_size, main_pc>>
    /\ UNCHANGED guiVars
    /\ UNCHANGED workerVars
    /\ UNCHANGED <<escaped, n_format, n_except, n_frames, last_frame,
                   valid_in, emitted_in, last_outcome>>

NextUpdateData ==
    \/ \E d \in TestRecords : EmitRecord(d)
    \/ GuiDispatchUpdateData
    \/ UpdateDataStep
    \/ UpdatePlot

SpecUpdateData == Init /\ [][NextUpdateData]_vars

\* ------------------------------------------------------------- properties
\* Number of commas of a text plus one: its number of comma-separated
\* fields, counted without splitting.
FieldCount(text) == Cardinality({i \in 1..Len(text) : text[i] = ","}) + 1

\* Position of each channel in the documented wire format
\* "setpoint,command,measurement1,measurement2".
WirePos(key) ==
    CASE key = "setpoint" -> 1
      [] key = "command" -> 2
      [] key = "measurement1" -> 3
      [] key = "measurement2" -> 4

\* The record a valid payload is documented to carry: for each channel the
\* number written in the field at its wire position.
WireRecord ==
    [raw \in ValidFrames |->
        [key \in KeySet |-> Float(FieldsOf(raw)[WirePos(key)]).val]]

WireValue(raw, key) == WireRecord[raw][key]

\* The payloads of Frames that are text of four fields, one of them not a
\* finite number.
NonFiniteFrames ==
    {raw \in Frames :
        /\ IsText(raw)
        /\ Len(FieldsOf(raw)) = 4
        /\ \E i \in 1..4 : ~IsFiniteDecimal(FieldsOf(raw)[i])}

\* The payloads of Frames that are text whose trimmed form does not have
\* exactly 4 comma-separated fields.
WrongCountFrames ==
    {raw \in Frames : IsText(raw) /\ FieldCount(Strip(raw)) # 4}

TextFrames == {raw \in Frames : IsText(raw)}

\* Every emission has been handed to update_data and update_data has returned.
Drained == queue = <<>> /\ gui_pc = "idle"

\* C1: a malformed frame never stops ingestion: no exception leaves
\* handle_xbee_message, the device stays open with the callback registered
\* for as long as stop has not been called, and a valid frame is emitted
\* however many malformed frames came before it.
C1_MalformedNeverStopsIngestion ==
    /\ ~escaped
    /\ (n_frames > 0 /\ main_pc \in {"exec", "exited"}) => (xbee = "open" /\ registered)
    /\ last_frame \in ValidFrames => last_outcome = "emit"
    /\ n_emit >= Len(valid_in)

\* A valid frame is emitted after two malformed ones.
C1_Witness ==
    /\ n_format >= 1
    /\ n_except >= 1
    /\ n_frames >= 3
    /\ last_frame \in ValidFrames
    /\ last_outcome = "emit"
    /\ queue # <<>>
    /\ Last(queue) = [k \in KeySet |-> WireValue(last_frame, k)]

\* C2: exact accounting and order: once every frame is processed there were
\* as many appends as valid frames, as many failure diagnostics as invalid
\* frames, and each channel holds the values of the valid records in the
\* order their frames arrived.
C2_ExactAccounting ==
    Drained =>
        /\ n_update = Len(valid_in)
        /\ n_format + n_except = n_frames - Len(valid_in)
        /\ \A key \in KeySet :
              data[key] = [i \in 1..Len(valid_in) |-> WireValue(valid_in[i], key)]

\* C3: a frame of four fields one of which is not a finite number (nan and
\* the infinities included) is refused through the except clause and
\* nothing is emitted for it.
C3_NonFiniteRejected ==
    last_frame \in NonFiniteFrames => last_outcome = "except"

\* C4: a frame is refused with the "Unexpected message format" diagnostic
\* exactly when its trimmed text does not have 4 comma-separated fields, and
\* every frame has one outcome only: a refused frame emits no record.
C4_FieldCount ==
    /\ last_frame \in TextFrames =>
          (last_frame \in WrongCountFrames <=> last_outcome = "format")
    /\ n_emit + n_format + n_except = n_frames

\* A frame of 5 fields is refused after a frame of fewer than 4 was.
C4_Witness ==
    /\ last_frame = F_five
    /\ last_outcome = "format"
    /\ n_format >= 2
    /\ n_emit = 0

\* C5: positional mapping: the record emitted for a valid frame
\* f0,f1,f2,f3 has setpoint = f0, command = f1, measurement1 = f2,
\* measurement2 = f3, and the value update_data appends to each channel is
\* the value of that same field.
C5_PositionalMapping ==
    /\ \A key \in KeySet : \A i \in 1..Len(data[key]) :
          emitted_in[i] \in ValidFrames =>
              data[key][i] = WireValue(emitted_in[i], key)
    /\ \A j \in 1..Len(queue) : \A key \in KeySet :
          emitted_in[n_update + j] \in ValidFrames =>
              queue[j][key] = WireValue(emitted_in[n_update + j], key)

\* The record of "1,2,3,4" has been appended: every channel's newest value
\* is the field at its wire position.
C5_Witness ==
    /\ gui_pc = "idle"
    /\ n_update >= 1
    /\ emitted_in[n_update] = F_1234
    /\ Last(data["setpoint"]) = Fin(1, 0)
    /\ Last(data["command"]) = Fin(2, 0)
    /\ Last(data["measurement1"]) = Fin(3, 0)
    /\ Last(data["measurement2"]) = Fin(4, 0)

\* totalReceived of a channel as a snapshot shows it: one past its last
\* index, 0 for an empty snapshot.
ShownTotal(c) == IF c.x = <<>> THEN 0 ELSE Last(c.x) + 1

IsPrefix(s, t) == Len(s) <= Len(t) /\ s = SubSeq(t, 1, Len(s))

\* C6: window capacity: a snapshot taken after K appends to a channel has
\* min(K, window_size) points, and they are the last ones appended, in
\* arrival order.
C6_WindowCapacity ==
    plot_fresh =>
        \A key \in KeySet :
            LET K == Len(data[key])
                y == curves[key].y
            IN  /\ Len(y) = Min(K, window_size)
                /\ \A i \in 1..Len(y) : y[i] = data[key][K - Len(y) + i]

\* A snapshot of a channel that received more values than the window holds.
C6_Witness ==
    /\ plot_fresh
    /\ Len(data["command"]) > window_size
    /\ Len(curves["command"].y) = window_size
    /\ curves["command"].y[1] # data["command"][1]

\* C7: index alignment: in every snapshot xs and ys have the same length
\* and xs counts up by one; in a snapshot of the current data the first x
\* is totalReceived - storedCount and the last is totalReceived - 1.
C7_IndexAlignment ==
    \A key \in KeySet :
        LET c == curves[key]
            total == Len(data[key])
        IN  /\ Len(c.x) = Len(c.y)
            /\ \A i \in 1..(Len(c.x) - 1) : c.x[i + 1] = c.x[i] + 1
            /\ (plot_fresh /\ total > 0) =>
                  /\ c.x # <<>>
                  /\ c.x[1] = total - Min(total, window_size)
                  /\ Last(c.x) = total - 1

\* Window of 2 after three appends: xs = [1, 2].
C7_Witness ==
    /\ plot_fresh
    /\ window_size = 2
    /\ Len(data["setpoint"]) = 3
    /\ curves["setpoint"].x = <<1, 2>>
    /\ curves["setpoint"].y = SubSeq(data["setpoint"], 2, 3)

\* C8 as stated: no channel's backing store ever holds more than
\* window_size values.
C8_BoundedStorage ==
    \A key \in KeySet : Len(data[key]) <= window_size

\* C8 amended: the backing store is append-only and unbounded, every value
\* ever appended stays in it at its index; only the plotted slice is
\* bounded by window_size.
C8_OnlyPlottedSliceBounded ==
    /\ [](\A key \in KeySet : Len(curves[key].y) <= window_size)
    /\ [][\A key \in KeySet : IsPrefix(data[key], data'[key])]_vars

\* The store holds more than window_size values while the plot shows
\* window_size of them.
C8_Witness ==
    /\ plot_fresh
    /\ \A key \in KeySet :
          /\ Len(data[key]) > window_size
          /\ Len(curves[key].y) = window_size

\* C9: after update_data has been called M times every channel has
\* received M values; inside a call the channels already visited have M
\* and the others M - 1, so each call adds exactly one value per channel
\* and no count ever goes down.
C9_CrossChannelCount ==
    \A key \in KeySet :
        Len(data[key]) =
            IF \E i \in 1..Len(gui_keys) : gui_keys[i] = key
            THEN n_update - 1
            ELSE n_update

\* Two records have been appended and every channel counts 2.
C9_Witness ==
    /\ gui_pc = "idle"
    /\ n_update = 2
    /\ \A key \in KeySet : Len(data[key]) = 2

\* C10: whatever the interleaving of frames and ticks, the four snapshots
\* of a tick show the same totalReceived, the number of update_data calls
\* that had returned: a tick never sees a record appended to some channels
\* and not to the others.
C10_SnapshotConsistency ==
    /\ \A k1, k2 \in KeySet : ShownTotal(curves[k1]) = ShownTotal(curves[k2])
    /\ (plot_fresh /\ gui_pc = "idle") =>
          \A key \in KeySet : ShownTotal(curves[key]) = n_update

\* A tick ran between two appends while a further record was waiting.
C10_Witness ==
    /\ plot_fresh
    /\ n_update = 1
    /\ queue # <<>>
    /\ \A key \in KeySet : ShownTotal(curves[key]) = 1

\* A field float() is documented to accept: a finite decimal, or nan, inf
\* or infinity with an optional sign.
IsNumberWord(f) ==
    \/ IsFiniteDecimal(f)
    \/ \E w \in {<<"n", "a", "n">>, <<"i", "n", "f">>,
                 <<"i", "n", "f", "i", "n", "i", "t", "y">>} :
          f = w \/ f = <<"+">> \o w \/ f = <<"-">> \o w

\* The payloads of Frames that are text of four fields, one of them no
\* number at all.
UnparsableFrames ==
    {raw \in Frames :
        /\ IsText(raw)
        /\ Len(FieldsOf(raw)) = 4
        /\ \E i \in 1..4 : ~IsNumberWord(Strip(FieldsOf(raw)[i]))}

\* The step of a handler call that refuses its payload: a diagnostic is
\* printed, or the payload has a wrong field count or an unparsable field.
RejectingStep ==
    /\ n_frames' = n_frames + 1
    /\ \/ n_format' + n_except' > n_format + n_except
       \/ last_frame' \in WrongCountFrames \cup UnparsableFrames

\* C11: a frame that fails decoding changes nothing: the call that refuses
\* it leaves every channel's values (and so its totalReceived) as they were
\* and emits nothing, whatever the position of the bad field; the records
\* appended or waiting are exactly the emitted ones.
C11_RejectedFrameChangesNothing ==
    /\ [][RejectingStep => (data' = data /\ queue' = queue /\ n_emit' = n_emit
                            /\ n_update' = n_update)]_vars
    /\ [](n_update + Len(queue) = n_emit)

\* "1,2,x,4" was refused after one record had been appended: the channels
\* still hold that one record.
C11_Witness ==
    /\ last_frame = F_x
    /\ last_outcome = "except"
    /\ n_emit = 1
    /\ Drained
    /\ \A key \in KeySet : Len(data[key]) = 1

\* A step of update_plot: it marks the plot fresh; when the plot already
\* was fresh it is a further tick between the same two appends.
TickStep == plot_fresh' /\ (~plot_fresh \/ curves' # curves)

\* C12: a tick never mutates state: a call of update_plot leaves every
\* channel's values, the pending emissions and the call counts as they
\* were, and a tick that follows a tick with no append in between shows the
\* same snapshot.
C12_TickNeverMutates ==
    /\ [][TickStep => (data' = data /\ queue' = queue /\ n_update' = n_update
                       /\ gui_pc' = gui_pc /\ window_size' = window_size)]_vars
    /\ [][(plot_fresh /\ plot_fresh') => curves' = curves]_vars

\* A tick has run on channels holding more values than the window shows,
\* and all of them are still stored.
C12_Witness ==
    /\ plot_fresh
    /\ Drained
    /\ n_update = n_emit
    /\ \A key \in KeySet :
          Len(data[key]) = n_update /\ Len(curves[key].y) < Len(data[key])

\* C13: empty read: a tick before any record was appended gives every
\* curve empty xs and empty ys, however often it is repeated.
C13_EmptyRead ==
    (plot_fresh /\ \A key \in KeySet : data[key] = <<>>) =>
        \A key \in KeySet : curves[key].x = <<>> /\ curves[key].y = <<>>

\* A tick ran while no record had been appended yet, one being on its way.
C13_Witness ==
    /\ plot_fresh
    /\ n_update = 0
    /\ n_emit >= 1
    /\ \A key \in KeySet : data[key] = <<>> /\ curves[key].y = <<>>

\* stop() has been called by main().
StopIssued == main_pc \in {"stopped", "done"}

\* C14: stop ordering: the device goes only from absent to open to closed,
\* once stop has been issued the device is not open and no further frame
\* is decoded or appended, and the call of stop leaves the values stored
\* in the channels as they were.
C14_StopOrdering ==
    /\ [](StopIssued => xbee # "open")
    /\ [][/\ xbee' # xbee =>
                <<xbee, xbee'>> \in {<<"None", "open">>, <<"None", "created">>,
                                     <<"open", "closed">>}
          /\ StopIssued => (n_frames' = n_frames /\ n_update' = n_update)
          /\ (main_pc = "exited" /\ main_pc' = "stopped") => data' = data]_vars

\* C15: a failure to open the device leaves start() as an exception
\* (worker_pc = "failed") and nothing else: the device is not open, the
\* callback is not registered, no frame is ever handled, and start() is not
\* run again, so the device is never opened later.
C15_StartFailureReported ==
    /\ [](worker_pc = "failed" =>
            (xbee = "created" /\ ~registered /\ ~Delivering /\ n_frames = 0))
    /\ [][worker_pc = "failed" => (worker_pc' = "failed" /\ xbee' = xbee)]_vars

\* open() failed and the program went on to its normal end: the window
\* ran, stop() and the thread shutdown were reached.
C15_Witness ==
    /\ worker_pc = "failed"
    /\ main_pc = "done"
    /\ xbee = "created"
    /\ plot_fresh

\* The record the handler emits for each payload (meaningful for the
\* payloads listed in emitted_in).
EmittedRecord == [raw \in Frames |-> Handle(raw).rec]

\* At most once and in order: every emitted record is either appended or
\* still queued, and the channels hold the emitted records' values in the
\* order of emission.
HandoffInOrder ==
    /\ n_update + Len(queue) = n_emit
    /\ Len(emitted_in) = n_emit
    /\ gui_pc = "idle" =>
         \A key \in KeySet :
             data[key] = [i \in 1..n_update |-> EmittedRecord[emitted_in[i]][key]]
    /\ \A j \in 1..Len(queue) : queue[j] = EmittedRecord[emitted_in[n_update + j]]

\* C16: every record emitted while the pipeline is Running (started, stop
\* not yet called) is appended exactly once, in emission order, and none is
\* dropped in the handoff. When app.exec() has returned and stop() has not
\* been called yet (main_pc = "exited") the pipeline is still Running and the
\* consumer's event loop runs no slot any more, so every record emitted so
\* far must already be appended.
C16_ExactlyOnceHandoff ==
    /\ HandoffInOrder
    /\ main_pc = "exited" => (queue = <<>> /\ n_update = n_emit)

\* C17: stop() raises nothing and closes the device only when it exists
\* and is open, whatever state the worker is in (never started, open failed,
\* open, already closed); a second stop() right after the first raises
\* nothing and closes nothing; a closed device stays closed, so it is closed
\* at most once.
C17_StopSafeEverywhere ==
    /\ [](/\ main_pc # "crashed"
          /\ ~StopResult(xbee).exc
          /\ StopResult(xbee).closed <=> (xbee # "None" /\ xbee = "open")
          /\ ~StopResult(StopResult(xbee).xbee).exc
          /\ ~StopResult(StopResult(xbee).xbee).closed
          /\ StopResult(StopResult(xbee).xbee).xbee = StopResult(xbee).xbee)
    /\ [][(main_pc = "exited" /\ main_pc' # "exited") =>
            /\ main_pc' = "stopped"
            /\ xbee' = IF xbee = "open" THEN "closed" ELSE xbee]_vars
    /\ [][xbee = "closed" => xbee' = "closed"]_vars

\* stop() was called before the worker thread had run start(): the device
\* was never created and stop() returned normally.
C17_Witness ==
    /\ main_pc = "stopped"
    /\ worker_pc = "init"
    /\ xbee = "None"

\* C18: whatever dictionary update_data receives, when it returns every one
\* of the four channels has exactly one more value: the record's value for
\* the channel's key, or 0 when the record lacks the key. The channels are
\* the same four as before (a key that is no channel adds none), earlier
\* values are kept, and the four lengths are equal.
C18_OneValuePerChannel ==
    /\ [](/\ DOMAIN data = KeySet
          /\ gui_pc = "idle" =>
               \A key \in KeySet :
                   /\ Len(data[key]) = n_update
                   /\ n_update >= 1 =>
                        Last(data[key]) =
                            IF key \in DOMAIN gui_ev THEN gui_ev[key] ELSE Fin(0, 0))
    /\ [][\A key \in KeySet :
              /\ IsPrefix(data[key], data'[key])
              /\ Len(data'[key]) <= Len(data[key]) + 1]_vars

\* update_data has returned from a record that lacks "command" and
\* "measurement1" and has a key that is no channel, after a complete record.
C18_Witness ==
    /\ gui_pc = "idle"
    /\ n_update = 2
    /\ gui_ev = R_extra
    /\ data["command"] = <<Fin(1, 0), Fin(0, 0)>>
    /\ data["setpoint"] = <<Fin(2, 0), Fin(7, 0)>>
    /\ data["measurement1"] = <<Fin(3, 0), Fin(0, 0)>>
    /\ data["measurement2"] = <<Fin(4, 0), Fin(7, 0)>>

====
